---- MODULE Spec2Model ----
(***************************************************************************)
(* Model of the drass attention tracker (server/database.py and the HTTP   *)
(* handlers of server/main.py): the sessions and distractions tables, the  *)
(* request handlers that write them, and the analytics that read them.     *)
(*                                                                         *)
(* Time.  The wall clock `now` counts ticks, Sub ticks to the second, so   *)
(* that it has the sub-second part that strftime("%Y-%m-%dT%H:%M:%SZ")     *)
(* drops.  A stored timestamp string is represented by the whole number of *)
(* seconds since the clock's origin (1970-01-01T00:00:00Z) that it spells: *)
(* the strings have one fixed width, so their order as strings is the      *)
(* order of these numbers.  A calendar date string is represented by the   *)
(* number of the day it names (days since 1970-01-01).                     *)
(*                                                                         *)
(* Concurrency.  FastAPI runs each `def` handler on a thread pool; every   *)
(* database function opens a connection of its own.  A handler is a        *)
(* sequence of steps, one per clock read and one per SQL statement or      *)
(* committed transaction, and steps of different requests interleave.      *)
(***************************************************************************)
EXTENDS Integers, Sequences, FiniteSets, TLC

(* ---------------------------------------------------------------- bounds *)
MaxSessions == 2
MaxAdvance == 2
MaxRequests == 4
Sub == 2

Workers == {1, 2}

(* ------------------------------------------------------ program constants *)
SecondsPerHour == 3600
SecondsPerDay == 86400
IST == 19800
ACTIVE_SESSION_MAX_AGE_HOURS == 24
TrendDays == 7

NULL == -1

\* now: the wall clock, in ticks.  advances: how often the clock has moved.
\* sessions, distractions: the two tables; a row's id is its index.
\* req: each worker thread's request in flight (its position and locals).
\* resp: the response that the step just taken returned to its client, if it
\* returned one (Idle otherwise).
\* served: how many requests have been accepted so far.
VARIABLES now, advances, sessions, distractions, req, resp, served

vars == <<now, advances, sessions, distractions, req, resp, served>>

(* -------------------------------------------------------------- helpers *)
\* datetime.utcnow().strftime("%Y-%m-%dT%H:%M:%SZ"): the clock cut to the second.
strftime(t) == t \div Sub

\* datetime.fromisoformat(s.replace("Z", "+00:00")): the instant, in ticks.
_parse_iso(s) == s * Sub

\* timedelta.total_seconds() of a difference of whole-second instants.
total_seconds(d) == d \div Sub

\* Python's truth value of a TEXT column: NULL (None) is false.
truthy(v) == v # NULL

\* round(a / n, 2), in hundredths, of the quotient of two whole numbers, n > 0:
\* the nearest hundredth, a tie (which a / n then is exactly) going to the even one.
round2(a, n) ==
    LET q == (a * 100) \div n
        r == (a * 100) % n
    IN  IF 2 * r < n THEN q
        ELSE IF 2 * r > n THEN q + 1
        ELSE IF q % 2 = 0 THEN q ELSE q + 1

RECURSIVE max(_)
max(s) == IF Len(s) = 1 THEN s[1]
          ELSE LET m == max(Tail(s)) IN IF s[1] >= m THEN s[1] ELSE m

RECURSIVE insert_sorted(_, _)
insert_sorted(s, x) ==
    IF s = << >> THEN <<x>>
    ELSE IF x < Head(s) THEN <<x>> \o s
    ELSE <<Head(s)>> \o insert_sorted(Tail(s), x)

RECURSIVE sorted(_)
sorted(s) == IF s = << >> THEN << >> ELSE insert_sorted(sorted(Tail(s)), Head(s))

Idle == [pc |-> "idle", op |-> "none", sid |-> 0, ts |-> NULL, ts2 |-> NULL,
         row |-> << >>, rows |-> << >>, ret |-> [kind |-> "none"]]

\* The ids a client may send: those of the sessions there can be, and one beyond.
SessionIds == 1 .. (MaxSessions + 1)

ValueError(msg) == [kind |-> "ValueError", msg |-> msg]

HTTPException(status_code, detail) ==
    [kind |-> "HTTPException", status_code |-> status_code, detail |-> detail]

None == [kind |-> "None"]

InFlight(w) == req[w].pc # "idle"

\* No request is in flight: the next one runs alone.
Quiet == \A w \in Workers : ~InFlight(w)

\* The thread pool hands a request to its first free worker.
Free(w) == ~InFlight(w) /\ \A v \in Workers : v < w => InFlight(v)

\* A free worker takes a request and runs the handler's first step, which leaves
\* it with the locals r.
Enter(w, r) ==
    /\ Free(w)
    /\ served < MaxRequests
    /\ served' = served + 1
    /\ req' = [req EXCEPT ![w] = r]
    /\ resp' = Idle

\* ... or which already returns (or raises) ret.
Reply(w, r, ret) ==
    /\ Free(w)
    /\ served < MaxRequests
    /\ served' = served + 1
    /\ req' = req
    /\ resp' = [r EXCEPT !.pc = "done", !.ret = ret]

\* A later step returns (or raises) ret; the worker is free again.
Return(w, ret) ==
    /\ resp' = [req[w] EXCEPT !.pc = "done", !.ret = ret]
    /\ req' = [req EXCEPT ![w] = Idle]
    /\ UNCHANGED served

\* A later step goes on to pc, having fetched the row.
Goto(w, pc, row) ==
    /\ req' = [req EXCEPT ![w].pc = pc, ![w].row = row]
    /\ resp' = Idle
    /\ UNCHANGED served

At(w, op, pc) == req[w].op = op /\ req[w].pc = pc

Call(op, pc, sid, ts) == [Idle EXCEPT !.op = op, !.pc = pc, !.sid = sid, !.ts = ts]

(* --------------------------------------------------------------- queries *)
\* SELECT ... FROM sessions WHERE id = ?  fetchone() gives the row or None: the
\* result is kept as the sequence of the rows found, << >> standing for None.
select_session(sid) ==
    IF sid \in DOMAIN sessions
      THEN <<[id |-> sid, started_at |-> sessions[sid].started_at,
              ended_at |-> sessions[sid].ended_at]>>
      ELSE << >>

RECURSIVE created_at_of(_, _)
created_at_of(rows, sid) ==
    IF rows = << >> THEN << >>
    ELSE IF Head(rows).session_id = sid
           THEN <<Head(rows).created_at>> \o created_at_of(Tail(rows), sid)
           ELSE created_at_of(Tail(rows), sid)

\* SELECT created_at FROM distractions WHERE session_id = ? ORDER BY created_at
select_distractions(sid) == sorted(created_at_of(distractions, sid))

(* ------------------------------------------------------------------ Init *)
Init ==
    /\ now = 0
    /\ advances = 0
    /\ sessions = << >>
    /\ distractions = << >>
    /\ req = [w \in Workers |-> Idle]
    /\ resp = Idle
    /\ served = 0

(* ----------------------------------------------------------------- clock *)
AdvanceBy(d) ==
    /\ advances < MaxAdvance
    /\ now' = now + d
    /\ advances' = advances + 1
    /\ resp' = Idle
    /\ UNCHANGED <<sessions, distractions, req, served>>

\* A second passes.
Tick == AdvanceBy(Sub)

\* Less than a second passes.
TickSub == AdvanceBy(1)

(* ------------------------------------------------------ streak calculator *)
\* (the first gap measured from the clock's origin, not from the session's start)
gaps_of_from_origin(start, end, times) ==
    IF times = << >> THEN <<total_seconds(end - start)>>
    ELSE <<total_seconds(times[1])>>
         \o [i \in 1 .. (Len(times) - 1) |-> total_seconds(times[i + 1] - times[i])]
         \o <<total_seconds(end - times[Len(times)])>>

\* (the gap from the last distraction to the end left out)
gaps_of_without_last(start, end, times) ==
    IF times = << >> THEN << >>
    ELSE <<total_seconds(times[1] - start)>>
         \o [i \in 1 .. (Len(times) - 1) |-> total_seconds(times[i + 1] - times[i])]

gaps_of(start, end, times) ==
    IF times = << >> THEN <<total_seconds(end - start)>>
    ELSE <<total_seconds(times[1] - start)>>
         \o [i \in 1 .. (Len(times) - 1) |-> total_seconds(times[i + 1] - times[i])]
         \o <<total_seconds(end - times[Len(times)])>>

_longest_streak_seconds(started_at, ended_at, distraction_times) ==
    IF ~truthy(ended_at) THEN 0
    ELSE LET start == _parse_iso(started_at)
             end == _parse_iso(ended_at)
             times == sorted([i \in 1 .. Len(distraction_times) |->
                                _parse_iso(distraction_times[i])])
             gaps == gaps_of(start, end, times)
         IN  IF gaps # << >> THEN max(gaps) ELSE 0

\* (the streaks counted where the distractions should be)
summary_of_miscounted(started_at, ended_at, dist_times) ==
    LET duration_seconds == total_seconds(_parse_iso(ended_at) - _parse_iso(started_at))
        count == Len(dist_times)
        num_streaks == IF count > 0 THEN count + 1 ELSE 1
        longest_streak == _longest_streak_seconds(started_at, ended_at, dist_times)
    IN  [kind |-> "summary",
         duration_seconds |-> round2(duration_seconds, 1),
         distraction_count |-> num_streaks,
         average_streak_seconds |-> round2(duration_seconds, num_streaks),
         longest_streak_seconds |-> round2(longest_streak, 1)]

\* The summary dict of a session row that has ended_at, rounded to 2 places: the
\* three durations are in hundredths of a second.
summary_of(started_at, ended_at, dist_times) ==
    LET start == _parse_iso(started_at)
        end == _parse_iso(ended_at)
        duration_seconds == total_seconds(end - start)
        count == Len(dist_times)
        num_streaks == IF count > 0 THEN count + 1 ELSE 1
        longest_streak == _longest_streak_seconds(started_at, ended_at, dist_times)
    IN  [kind |-> "summary",
         duration_seconds |-> round2(duration_seconds, 1),
         distraction_count |-> count,
         average_streak_seconds |-> round2(duration_seconds, num_streaks),
         longest_streak_seconds |-> round2(longest_streak, 1)]

(* -------------------------------------------------------- create_session *)
\* started_at = datetime.utcnow().strftime(...)
create_session_begin(w) ==
    /\ Len(sessions) < MaxSessions
    /\ Enter(w, Call("create_session", "insert", 0, strftime(now)))
    /\ UNCHANGED <<now, advances, sessions, distractions>>

\* INSERT INTO sessions (started_at, ended_at) VALUES (?, NULL); commit; return
create_session_insert(w) ==
    /\ At(w, "create_session", "insert")
    /\ Len(sessions) < MaxSessions
    /\ sessions' = Append(sessions, [started_at |-> req[w].ts, ended_at |-> NULL])
    /\ Return(w, [kind |-> "session", id |-> Len(sessions) + 1, started_at |-> req[w].ts])
    /\ UNCHANGED <<now, advances, distractions>>

(* -------------------------------------------- validate_and_add_distraction *)
\* created_at = datetime.utcnow().strftime(...)
validate_and_add_distraction_begin(w, sid) ==
    /\ Enter(w, Call("validate_and_add_distraction", "select", sid, strftime(now)))
    /\ UNCHANGED <<now, advances, sessions, distractions>>

\* (the check of ended_at left out)
validate_session_unchecked(w, row) ==
    IF row = << >> THEN Return(w, ValueError("Session not found"))
    ELSE Goto(w, "write", row)

\* (a missing row taken for a session that has ended)
validate_session_no_404(w, row) ==
    IF row = << >> \/ truthy(row[1].ended_at)
      THEN Return(w, ValueError("Session already ended"))
      ELSE Goto(w, "write", row)

\* The checks of the row that SELECT id, ended_at FROM sessions WHERE id = ? found.
validate_session(w, row) ==
    IF row = << >> THEN Return(w, ValueError("Session not found"))
    ELSE IF truthy(row[1].ended_at) THEN Return(w, ValueError("Session already ended"))
    ELSE Goto(w, "write", row)

validate_and_add_distraction_select(w) ==
    /\ At(w, "validate_and_add_distraction", "select")
    /\ validate_session(w, select_session(req[w].sid))
    /\ UNCHANGED <<now, advances, sessions, distractions>>

\* INSERT INTO distractions (session_id, created_at) VALUES (?, ?); commit; return
insert_distraction(w, created_at) ==
    /\ distractions' = Append(distractions,
                              [session_id |-> req[w].sid, created_at |-> created_at])
    /\ Return(w, [kind |-> "distraction", id |-> Len(distractions) + 1,
                  session_id |-> req[w].sid, created_at |-> created_at])

validate_and_add_distraction_insert(w) ==
    /\ At(w, "validate_and_add_distraction", "write")
    /\ insert_distraction(w, req[w].ts)
    /\ UNCHANGED <<now, advances, sessions>>

(* -------------------------------------------------------- end_session_full *)
\* ended_at = datetime.utcnow().strftime(...)
end_session_full_begin(w, sid) ==
    /\ Enter(w, Call("end_session_full", "select", sid, strftime(now)))
    /\ UNCHANGED <<now, advances, sessions, distractions>>

\* SELECT id, started_at, ended_at FROM sessions WHERE id = ?, and the two checks
end_session_full_select(w) ==
    /\ At(w, "end_session_full", "select")
    /\ validate_session(w, select_session(req[w].sid))
    /\ UNCHANGED <<now, advances, sessions, distractions>>

\* UPDATE sessions SET ended_at = ? WHERE id = ?
update_ended_at(sid, ended_at) == [sessions EXCEPT ![sid].ended_at = ended_at]

\* the UPDATE, the SELECT of the session's distractions, commit, and the summary
end_session_full_update(w) ==
    /\ At(w, "end_session_full", "write")
    /\ sessions' = update_ended_at(req[w].sid, req[w].ts)
    /\ Return(w, [kind |-> "ended", id |-> req[w].sid,
                  started_at |-> req[w].row[1].started_at, ended_at |-> req[w].ts,
                  summary |-> summary_of(req[w].row[1].started_at, req[w].ts,
                                         select_distractions(req[w].sid))])
    /\ UNCHANGED <<now, advances, distractions>>

(* ----------------------------------------------------- get_session_summary *)
\* (a session that has not ended told apart from one that is not there)
no_summary_not_ready(session) ==
    IF session = << >> THEN None ELSE [kind |-> "NotReady"]

\* What get_session_summary returns when `not session or not session.get("ended_at")`.
no_summary(session) == None

\* SELECT id, started_at, ended_at FROM sessions WHERE id = ?, and that check
get_session_summary_select(w) ==
    /\ \E sid \in SessionIds :
         LET r == [Call("get_session_summary", "dists", sid, NULL)
                     EXCEPT !.row = select_session(sid)]
         IN  IF r.row = << >> \/ ~truthy(r.row[1].ended_at)
               THEN Reply(w, r, no_summary(r.row))
               ELSE Enter(w, r)
    /\ UNCHANGED <<now, advances, sessions, distractions>>

\* SELECT created_at FROM distractions WHERE session_id = ? ORDER BY created_at,
\* and the summary of the session row read before
get_session_summary_dists(w) ==
    /\ At(w, "get_session_summary", "dists")
    /\ Return(w, summary_of(req[w].row[1].started_at, req[w].row[1].ended_at,
                            select_distractions(req[w].sid)))
    /\ UNCHANGED <<now, advances, sessions, distractions>>

\* main.session_summary: 404 unless get_session_summary gave a summary
session_summary(summary) ==
    IF summary.kind = "None"
      THEN HTTPException(404, "Session not found or not ended")
      ELSE [summary EXCEPT !.kind = "SessionSummaryResponse"]

(* --------------------------------------- main.log_distraction, end_session *)
\* database.get_session(session_id): the session row, or None.
get_session(sid) == select_session(sid)

\* The checks both handlers make of the row get_session returned.
check_session(w, r) ==
    IF r.row = << >> THEN Reply(w, r, HTTPException(404, "Session not found"))
    ELSE IF truthy(r.row[1].ended_at)
      THEN Reply(w, r, HTTPException(400, "Session already ended"))
    ELSE Enter(w, r)

\* session = get_session(session_id), and the 404 and 400 checks
log_distraction_get(w) ==
    /\ \E sid \in SessionIds :
         check_session(w, [Call("log_distraction", "write", sid, NULL)
                             EXCEPT !.row = get_session(sid)])
    /\ UNCHANGED <<now, advances, sessions, distractions>>

\* database.add_distraction(session_id): the distraction row written now.
add_distraction(w) == insert_distraction(w, strftime(now))

\* dist_id, sid, created_at = db_add_distraction(session_id)
log_distraction_add(w) ==
    /\ At(w, "log_distraction", "write")
    /\ add_distraction(w)
    /\ UNCHANGED <<now, advances, sessions>>

\* session = get_session(session_id), and the 404 and 400 checks
end_session_get(w) ==
    /\ \E sid \in SessionIds :
         check_session(w, [Call("end_session", "write", sid, NULL)
                             EXCEPT !.row = get_session(sid)])
    /\ UNCHANGED <<now, advances, sessions, distractions>>

\* database.end_session(session_id): ended_at is set to now, and returned.
end_session(sid) == update_ended_at(sid, strftime(now))

\* ended_at = db_end_session(session_id); return SessionResponse(...)
end_session_end(w) ==
    /\ At(w, "end_session", "write")
    /\ sessions' = end_session(req[w].sid)
    /\ Return(w, [kind |-> "SessionResponse", id |-> req[w].sid,
                  started_at |-> req[w].row[1].started_at,
                  ended_at |-> sessions'[req[w].sid].ended_at])
    /\ UNCHANGED <<now, advances, distractions>>

(* ------------------------------------------------------ get_active_session *)
\* SELECT s.id, s.started_at, s.ended_at, COUNT(d.id) ... WHERE s.ended_at IS NULL
\* GROUP BY ... ORDER BY s.started_at DESC LIMIT 1: the rows it may return (one
\* of those that started last, when several started in the same second).
active_candidates ==
    LET open == {i \in DOMAIN sessions : sessions[i].ended_at = NULL}
        last == {i \in open : \A j \in open : sessions[j].started_at <= sessions[i].started_at}
    IN  {[id |-> i, started_at |-> sessions[i].started_at, ended_at |-> sessions[i].ended_at,
          distraction_count |-> Len(created_at_of(distractions, i))] : i \in last}

\* the query; if row is None: return None
get_active_session_select(w) ==
    /\ LET r == Call("get_active_session", "age", 0, NULL)
       IN  IF active_candidates = {}
             THEN Reply(w, r, None)
             ELSE \E row \in active_candidates : Enter(w, [r EXCEPT !.row = <<row>>])
    /\ UNCHANGED <<now, advances, sessions, distractions>>

\* (a session of exactly the maximum age taken for too old)
too_old_at_limit(started_at_str, t) ==
    t - _parse_iso(started_at_str) >= ACTIVE_SESSION_MAX_AGE_HOURS * SecondsPerHour * Sub

\* age_hours = (now - started).total_seconds() / 3600 > ACTIVE_SESSION_MAX_AGE_HOURS,
\* with both sides multiplied by 3600 and taken in ticks
too_old(started_at_str, t) ==
    t - _parse_iso(started_at_str) > ACTIVE_SESSION_MAX_AGE_HOURS * SecondsPerHour * Sub

\* now = datetime.utcnow(), the age check, and the dict returned
get_active_session_age(w) ==
    /\ At(w, "get_active_session", "age")
    /\ LET row == req[w].row[1]
       IN  IF too_old(row.started_at, now)
             THEN Return(w, None)
             ELSE Return(w, [kind |-> "active", id |-> row.id, started_at |-> row.started_at,
                             ended_at |-> row.ended_at,
                             distraction_count |-> row.distraction_count])
    /\ UNCHANGED <<now, advances, sessions, distractions>>

\* main.active_session: 404 unless get_active_session gave a session
active_session(session) ==
    IF session.kind = "None"
      THEN HTTPException(404, "No active session")
      ELSE [session EXCEPT !.kind = "ActiveSessionResponse"]

(* ---------------------------------------------------------------- get_stats *)
\* The local calendar day (its number) of an instant given in whole seconds:
\* astimezone(IST) and strftime("%Y-%m-%d").
ist_day(seconds) == (seconds + IST) \div SecondsPerDay

\* now_ist.replace(hour=0, minute=0, second=0, microsecond=0), as an instant in ticks
today_start(now_ist) == (ist_day(now_ist \div Sub) * SecondsPerDay - IST) * Sub

\* (the UTC date taken, astimezone(IST) left out)
day_key_utc(started_at) == total_seconds(_parse_iso(started_at)) \div SecondsPerDay

\* s_utc.astimezone(IST).strftime("%Y-%m-%d") of a stored timestamp
day_key(started_at) == ist_day(total_seconds(_parse_iso(started_at)))

session_rows == [i \in 1 .. Len(sessions) |->
                   [id |-> i, started_at |-> sessions[i].started_at,
                    ended_at |-> sessions[i].ended_at]]

\* SELECT id, started_at, ended_at FROM sessions WHERE started_at >= ? AND started_at < ?
select_sessions_between(week_start_str, week_end_str) ==
    SelectSeq(session_rows,
              LAMBDA r : week_start_str <= r.started_at /\ r.started_at < week_end_str)

\* SELECT session_id, created_at FROM distractions WHERE session_id IN (...) ORDER BY
\* created_at, grouped by session_id
select_distractions_by_session(all_sessions) ==
    LET ids == {all_sessions[i].id : i \in 1 .. Len(all_sessions)}
        hit == {id \in ids : created_at_of(distractions, id) # << >>}
    IN  [id \in hit |-> select_distractions(id)]

\* distractions_by_session.get(id, [])
get(distractions_by_session, id) ==
    IF id \in DOMAIN distractions_by_session THEN distractions_by_session[id] ELSE << >>

\* (a session without distractions taken in whether it has ended or not)
in_day_streaks_unended_too(streak, s, dist_times) ==
    streak > 0 \/ dist_times = << >>

\* Whether a session's streak joins the day's streaks.
in_day_streaks(streak, s, dist_times) ==
    streak > 0 \/ (truthy(s.ended_at) /\ dist_times = << >>)

RECURSIVE _compute_day_stats(_, _)
_compute_day_stats(ss, distractions_by_session) ==
    IF ss = << >> THEN [day_distractions |-> 0, day_streaks |-> << >>]
    ELSE LET s == Head(ss)
             rest == _compute_day_stats(Tail(ss), distractions_by_session)
             dist_times == get(distractions_by_session, s.id)
             streak == _longest_streak_seconds(s.started_at, s.ended_at, dist_times)
         IN  [day_distractions |-> Len(dist_times) + rest.day_distractions,
              day_streaks |-> IF in_day_streaks(streak, s, dist_times)
                                THEN <<streak>> \o rest.day_streaks
                                ELSE rest.day_streaks]

\* day_buckets.get(day_key, [])
day_bucket(all_sessions, key) == SelectSeq(all_sessions, LAMBDA s : day_key(s.started_at) = key)

\* (the days counted from the oldest)
day_trend_oldest_first(now_ist, all_sessions, distractions_by_session, d) ==
    LET day_ist == today_start(now_ist) - (TrendDays - 1 - d) * SecondsPerDay * Sub
        key == ist_day(total_seconds(day_ist))
        day_sessions == day_bucket(all_sessions, key)
        st == _compute_day_stats(day_sessions, distractions_by_session)
    IN  [date |-> key,
         session_count |-> Len(day_sessions),
         total_distractions |-> st.day_distractions,
         longest_streak_seconds |-> IF st.day_streaks # << >> THEN max(st.day_streaks) ELSE 0]

\* One entry of last_7_days: the day d days before today.
day_trend(now_ist, all_sessions, distractions_by_session, d) ==
    LET day_ist == today_start(now_ist) - d * SecondsPerDay * Sub
        key == ist_day(total_seconds(day_ist))
        day_sessions == day_bucket(all_sessions, key)
        st == _compute_day_stats(day_sessions, distractions_by_session)
    IN  [date |-> key,
         session_count |-> Len(day_sessions),
         total_distractions |-> st.day_distractions,
         longest_streak_seconds |-> IF st.day_streaks # << >> THEN max(st.day_streaks) ELSE 0]

\* (a second, not an hour, taken when no time has elapsed)
today_hours_floor_second(now_ist, now_utc) ==
    LET d == now_utc - today_start(now_ist)
        today_total == IF d > 0 THEN d ELSE 0
    IN  IF today_total > 0 THEN today_total ELSE Sub

\* today_hours, as the ticks elapsed of today (an hour's ticks when none has)
today_hours(now_ist, now_utc) ==
    LET d == now_utc - today_start(now_ist)
        today_total == IF d > 0 THEN d ELSE 0
    IN  IF today_total > 0 THEN today_total ELSE SecondsPerHour * Sub

\* The dict get_stats returns; the two rounded values are in hundredths.
stats_of(now_ist, now_utc, all_sessions, distractions_by_session) ==
    LET today_key == ist_day(total_seconds(today_start(now_ist)))
        today_sessions_list == day_bucket(all_sessions, today_key)
        st == _compute_day_stats(today_sessions_list, distractions_by_session)
        today_longest_streak == IF st.day_streaks # << >> THEN max(st.day_streaks) ELSE 0
    IN  [kind |-> "stats",
         today_sessions |-> Len(today_sessions_list),
         today_distractions_per_hour |->
             round2(st.day_distractions * SecondsPerHour * Sub, today_hours(now_ist, now_utc)),
         today_longest_streak_seconds |-> round2(today_longest_streak, 1),
         last_7_days |-> [k \in 1 .. TrendDays |->
                            day_trend(now_ist, all_sessions, distractions_by_session, k - 1)]]

\* now_ist = datetime.now(IST)
get_stats_now_ist(w) ==
    /\ Enter(w, Call("get_stats", "now_utc", 0, now))
    /\ UNCHANGED <<now, advances, sessions, distractions>>

\* now_utc = datetime.now(timezone.utc)
get_stats_now_utc(w) ==
    /\ At(w, "get_stats", "now_utc")
    /\ req' = [req EXCEPT ![w].pc = "sessions", ![w].ts2 = now]
    /\ resp' = Idle
    /\ UNCHANGED <<now, advances, sessions, distractions, served>>

\* the week's bounds as strings, and the sessions that started between them
get_stats_sessions(w) ==
    /\ At(w, "get_stats", "sessions")
    /\ LET week_start_utc == today_start(req[w].ts) - (TrendDays - 1) * SecondsPerDay * Sub
           tomorrow_end_utc == today_start(req[w].ts) + SecondsPerDay * Sub
       IN  req' = [req EXCEPT ![w].pc = "distractions",
                              ![w].rows = select_sessions_between(strftime(week_start_utc),
                                                                  strftime(tomorrow_end_utc))]
    /\ resp' = Idle
    /\ UNCHANGED <<now, advances, sessions, distractions, served>>

\* the distractions of these sessions, and the statistics
get_stats_distractions(w) ==
    /\ At(w, "get_stats", "distractions")
    /\ Return(w, stats_of(req[w].ts, req[w].ts2, req[w].rows,
                          select_distractions_by_session(req[w].rows)))
    /\ UNCHANGED <<now, advances, sessions, distractions>>

(* ------------------------------------------------------------------ Next *)
\* Requests on the database functions, their steps interleaved.
Next ==
    \/ Tick
    \/ \E w \in Workers : create_session_begin(w)
    \/ \E w \in Workers : create_session_insert(w)
    \/ \E w \in Workers, sid \in SessionIds : validate_and_add_distraction_begin(w, sid)
    \/ \E w \in Workers : validate_and_add_distraction_select(w)
    \/ \E w \in Workers : validate_and_add_distraction_insert(w)
    \/ \E w \in Workers, sid \in SessionIds : end_session_full_begin(w, sid)
    \/ \E w \in Workers : end_session_full_select(w)
    \/ \E w \in Workers : end_session_full_update(w)
    \/ \E w \in Workers : get_session_summary_select(w)
    \/ \E w \in Workers : get_session_summary_dists(w)

Spec == Init /\ [][Next]_vars

\* One operation at a time, each run to its end before the next is accepted:
\* the database functions and the HTTP handlers of main.py.
SeqNext ==
    \/ Tick
    \/ TickSub
    \/ \E w \in Workers : Quiet /\ create_session_begin(w)
    \/ \E w \in Workers : create_session_insert(w)
    \/ \E w \in Workers, sid \in SessionIds : Quiet /\ validate_and_add_distraction_begin(w, sid)
    \/ \E w \in Workers : validate_and_add_distraction_select(w)
    \/ \E w \in Workers : validate_and_add_distraction_insert(w)
    \/ \E w \in Workers, sid \in SessionIds : Quiet /\ end_session_full_begin(w, sid)
    \/ \E w \in Workers : end_session_full_select(w)
    \/ \E w \in Workers : end_session_full_update(w)
    \/ \E w \in Workers : Quiet /\ log_distraction_get(w)
    \/ \E w \in Workers : log_distraction_add(w)
    \/ \E w \in Workers : Quiet /\ end_session_get(w)
    \/ \E w \in Workers : end_session_end(w)
    \/ \E w \in Workers : Quiet /\ get_session_summary_select(w)
    \/ \E w \in Workers : get_session_summary_dists(w)

SeqSpec == Init /\ [][SeqNext]_vars

\* The clock's long steps: to one tick before the local midnight that follows the
\* origin, a day, and six days.
Jumps == {(SecondsPerDay - IST) * Sub - 1, SecondsPerDay * Sub, 6 * SecondsPerDay * Sub}

\* Long times pass between requests, not within one.
Jump == Quiet /\ \E d \in Jumps : AdvanceBy(d)

\* One operation at a time over days, on the sessions there are: sessions,
\* distractions, and the two reads that depend on the time of day.
StatsNext ==
    \/ TickSub
    \/ Jump
    \/ \E w \in Workers : Quiet /\ create_session_begin(w)
    \/ \E w \in Workers : create_session_insert(w)
    \/ \E w \in Workers, sid \in DOMAIN sessions : Quiet /\ validate_and_add_distraction_begin(w, sid)
    \/ \E w \in Workers : validate_and_add_distraction_select(w)
    \/ \E w \in Workers : validate_and_add_distraction_insert(w)
    \/ \E w \in Workers, sid \in DOMAIN sessions : Quiet /\ end_session_full_begin(w, sid)
    \/ \E w \in Workers : end_session_full_select(w)
    \/ \E w \in Workers : end_session_full_update(w)
    \/ \E w \in Workers : Quiet /\ get_active_session_select(w)
    \/ \E w \in Workers : get_active_session_age(w)
    \/ \E w \in Workers : Quiet /\ get_stats_now_ist(w)
    \/ \E w \in Workers : get_stats_now_utc(w)
    \/ \E w \in Workers : get_stats_sessions(w)
    \/ \E w \in Workers : get_stats_distractions(w)

StatsSpec == Init /\ [][StatsNext]_vars

\* The two readers among the writers, their steps interleaved.
SnapshotNext ==
    \/ Tick
    \/ \E w \in Workers : Quiet /\ create_session_begin(w)
    \/ \E w \in Workers : create_session_insert(w)
    \/ \E w \in Workers, sid \in DOMAIN sessions : validate_and_add_distraction_begin(w, sid)
    \/ \E w \in Workers : validate_and_add_distraction_select(w)
    \/ \E w \in Workers : validate_and_add_distraction_insert(w)
    \/ \E w \in Workers, sid \in DOMAIN sessions : end_session_full_begin(w, sid)
    \/ \E w \in Workers : end_session_full_select(w)
    \/ \E w \in Workers : end_session_full_update(w)
    \/ \E w \in Workers : get_session_summary_select(w)
    \/ \E w \in Workers : get_session_summary_dists(w)
    \/ \E w \in Workers : get_stats_now_ist(w)
    \/ \E w \in Workers : get_stats_now_utc(w)
    \/ \E w \in Workers : get_stats_sessions(w)
    \/ \E w \in Workers : get_stats_distractions(w)

SnapshotSpec == Init /\ [][SnapshotNext]_vars

(* ================================================================ claims *)
Returned(r, ops) == r.pc = "done" /\ r.op \in ops

DistractionOps == {"validate_and_add_distraction", "log_distraction"}
EndOps == {"end_session_full", "end_session"}

\* The error a handler raises: the database functions a ValueError, the HTTP
\* handlers of main.py an HTTPException.
NotFound(op) ==
    IF op \in {"log_distraction", "end_session"}
      THEN HTTPException(404, "Session not found")
      ELSE ValueError("Session not found")

InvalidState(op) ==
    IF op \in {"log_distraction", "end_session"}
      THEN HTTPException(400, "Session already ended")
      ELSE ValueError("Session already ended")

Ended(i) == i \in DOMAIN sessions /\ sessions[i].ended_at # NULL

\* C1: when operations run one after another, a distraction request on a session
\* that has ended is answered with the InvalidState error and writes nothing, and
\* no step adds a distraction to a session that has ended.
C1_DistractionRejectedAfterEnd ==
    [][/\ (Returned(resp', DistractionOps) /\ Ended(resp'.sid))
             => /\ resp'.ret = InvalidState(resp'.op)
                /\ distractions' = distractions
       /\ \A i \in DOMAIN sessions :
             Ended(i) => created_at_of(distractions', i) = created_at_of(distractions, i)
      ]_vars

\* C1 witness: a distraction request on an ended session that has a distraction
\* was just rejected.
C1_Witness ==
    /\ Returned(resp, DistractionOps)
    /\ Ended(resp.sid)
    /\ resp.ret = InvalidState(resp.op)
    /\ created_at_of(distractions, resp.sid) # << >>

\* C2: ended_at is set once: ending a session that has ended is rejected with
\* InvalidState, an ended_at that is present never changes, no session is deleted.
C2_EndedAtSetOnce ==
    [][/\ (Returned(resp', EndOps) /\ Ended(resp'.sid))
             => resp'.ret = InvalidState(resp'.op)
       /\ \A i \in DOMAIN sessions :
             /\ i \in DOMAIN sessions'
             /\ Ended(i) => sessions'[i].ended_at = sessions[i].ended_at
      ]_vars

\* C3: under every interleaving no distraction is written to a session whose
\* ended_at is set, and every distraction of an ended session has its created_at
\* within [started_at, ended_at].
C3_AtomicValidateAndWrite ==
    [][/\ \A i \in DOMAIN sessions :
             Ended(i) => created_at_of(distractions', i) = created_at_of(distractions, i)
       /\ \A k \in DOMAIN distractions' :
             LET s == sessions'[distractions'[k].session_id]
             IN  s.ended_at # NULL
                   => /\ s.started_at <= distractions'[k].created_at
                      /\ distractions'[k].created_at <= s.ended_at
      ]_vars

\* C4: ending, or recording a distraction on, a session id that has no row is
\* answered with the NotFound error, and the two tables stay as they were.
C4_NotFoundLeavesTables ==
    [][/\ (Returned(resp', DistractionOps \cup EndOps) /\ resp'.sid \notin DOMAIN sessions)
             => resp'.ret = NotFound(resp'.op)
       /\ (Returned(resp', DistractionOps \cup EndOps) /\ resp'.ret = NotFound(resp'.op))
             => /\ resp'.sid \notin DOMAIN sessions
                /\ sessions' = sessions
                /\ distractions' = distractions
      ]_vars

\* C4 witness: a request for an id beyond the sessions there are was just answered
\* NotFound, with a session and a distraction in the tables.
C4_Witness ==
    /\ Returned(resp, DistractionOps \cup EndOps)
    /\ resp.ret = NotFound(resp.op)
    /\ sessions # << >>
    /\ distractions # << >>

\* C5: get_session_summary gives a summary exactly when the session exists and
\* has ended (none for a session without ended_at, whatever its distractions),
\* and the summary's distraction_count is the number of the session's distractions.
C5_SummaryIffEnded ==
    [][Returned(resp', {"get_session_summary"})
         => /\ resp'.ret.kind = "summary" <=> Ended(resp'.sid)
            /\ resp'.ret.kind # "summary" => resp'.ret = None
            /\ resp'.ret.kind = "summary"
                 => resp'.ret.distraction_count
                      = Cardinality({k \in DOMAIN distractions :
                                       distractions[k].session_id = resp'.sid})
      ]_vars

\* C5 witness: the summary of an ended session with a distraction was returned.
C5_Witness ==
    /\ Returned(resp, {"get_session_summary"})
    /\ resp.ret.kind = "summary"
    /\ resp.ret.distraction_count > 0

\* C6 as stated: the outcome of a summary request for a session that has not
\* ended differs from the outcome of one for an id that has no row.
C6_NotReadyDistinctFromNotFound ==
    [][(/\ Returned(resp, {"get_session_summary"}) /\ resp.row = << >>
        /\ Returned(resp', {"get_session_summary"}) /\ resp'.row # << >>
        /\ ~truthy(resp'.row[1].ended_at))
         => /\ resp'.ret # resp.ret
            /\ session_summary(resp'.ret) # session_summary(resp.ret)
      ]_vars

\* C6 amended: a summary request for a session that has not ended and one for an
\* id that has no row have the same outcome: get_session_summary returns None, and
\* the handler answers 404 "Session not found or not ended".
C6_NotReadySameAsNotFound ==
    [][(/\ Returned(resp', {"get_session_summary"})
        /\ (resp'.row = << >> \/ ~truthy(resp'.row[1].ended_at)))
         => /\ resp'.row = select_session(resp'.sid)
            /\ resp'.ret = None
            /\ session_summary(resp'.ret)
                 = HTTPException(404, "Session not found or not ended")
      ]_vars

\* C6 witness: a summary request for a session that exists and has not ended was
\* just answered.
C6_Witness ==
    /\ Returned(resp, {"get_session_summary"})
    /\ resp.row # << >>
    /\ ~truthy(resp.row[1].ended_at)

\* The age in ticks past which a session is stale: 24 hours.
MaxAge == 24 * 3600 * Sub

\* The unended sessions that started last.
Candidates ==
    {i \in DOMAIN sessions :
        /\ sessions[i].ended_at = NULL
        /\ \A j \in DOMAIN sessions :
              sessions[j].ended_at = NULL => sessions[j].started_at <= sessions[i].started_at}

\* C7: get_active_session reports the most recently started unended session,
\* exactly when now - started_at <= 24 hours, and otherwise none; no step of it
\* changes the tables, so a stale session keeps its empty ended_at, and an end
\* operation on an unended session sets ended_at however old the session is.
C7_ActiveWithin24Hours ==
    [][/\ Returned(resp', {"get_active_session"})
            => /\ resp'.ret.kind = "active"
                    <=> \E i \in Candidates : now - sessions[i].started_at * Sub <= MaxAge
               /\ resp'.ret.kind = "active"
                    => /\ resp'.ret.id \in Candidates
                       /\ resp'.ret.started_at = sessions[resp'.ret.id].started_at
                       /\ resp'.ret.ended_at = NULL
               /\ resp'.ret.kind # "active" => resp'.ret = None
       /\ (\E w \in Workers : req[w].op = "get_active_session" /\ req'[w] # req[w])
            \/ Returned(resp', {"get_active_session"})
            => sessions' = sessions /\ distractions' = distractions
       /\ (/\ Returned(resp', {"end_session_full"})
           /\ resp'.sid \in DOMAIN sessions
           /\ sessions[resp'.sid].ended_at = NULL)
            => /\ resp'.ret.kind = "ended"
               /\ sessions'[resp'.sid].ended_at = resp'.ts
      ]_vars

\* C7 witness: get_active_session just reported no session because the candidate
\* is older than 24 hours; it is still unended, and another session was ended
\* when it was older than 24 hours.
C7_Witness ==
    /\ Returned(resp, {"get_active_session"})
    /\ resp.ret = None
    /\ \E i \in Candidates : now - sessions[i].started_at * Sub > MaxAge
    /\ \E j \in DOMAIN sessions :
          /\ sessions[j].ended_at # NULL
          /\ (sessions[j].ended_at - sessions[j].started_at) * Sub > MaxAge

\* The local (UTC+5:30) calendar day of an instant in whole seconds.
LocalDay(t) == (t + 19800) \div 86400

\* The sessions of the 7-day window of a get_stats call that read the clock at
\* now_ist: from local midnight 6 days ago to the next local midnight.
InWindow(now_ist) ==
    LET midnight == LocalDay(now_ist \div Sub) * 86400 - 19800
    IN  {i \in DOMAIN sessions :
            /\ midnight - 6 * 86400 <= sessions[i].started_at
            /\ sessions[i].started_at < midnight + 86400}

RECURSIVE SumCounts(_)
SumCounts(days) ==
    IF days = << >> THEN 0 ELSE Head(days).session_count + SumCounts(Tail(days))

\* C8: every session of the 7-day window, ended or not, is counted in exactly
\* one last_7_days entry, the one of the local day of its started_at: each
\* entry's session_count is the number of the window's sessions that started on
\* its day, and the counts sum to the number of sessions in the window.
C8_BucketsPartitionWindow ==
    [][Returned(resp', {"get_stats"})
         => LET days == resp'.ret.last_7_days
                today == LocalDay(resp'.ts \div Sub)
                W == InWindow(resp'.ts)
            IN  /\ \A k \in DOMAIN days :
                      days[k].session_count
                        = Cardinality({i \in W :
                                         LocalDay(sessions[i].started_at) = today - (k - 1)})
                /\ SumCounts(days) = Cardinality(W)
      ]_vars

\* C8 witness: get_stats just answered with two sessions in the window that
\* started a second apart on the same UTC day and on different local days, one
\* of them unended, and both are counted.
C8_Witness ==
    /\ Returned(resp, {"get_stats"})
    /\ \E i, j \in InWindow(resp.ts) :
          /\ LocalDay(sessions[i].started_at) # LocalDay(sessions[j].started_at)
          /\ sessions[i].started_at \div 86400 = sessions[j].started_at \div 86400
          /\ sessions[i].ended_at = NULL
    /\ SumCounts(resp.ret.last_7_days) = 2

\* C9: last_7_days has exactly 7 entries, for today and the 6 local days before
\* it, today first; the entry of a day on which no session started has
\* session_count, total_distractions and longest_streak_seconds all 0.
C9_SevenDaysMostRecentFirst ==
    [][Returned(resp', {"get_stats"})
         => LET days == resp'.ret.last_7_days
                today == LocalDay(resp'.ts \div Sub)
            IN  /\ Len(days) = 7
                /\ \A k \in 1 .. Len(days) :
                      /\ days[k].date = today - (k - 1)
                      /\ (\A i \in DOMAIN sessions :
                             LocalDay(sessions[i].started_at) # days[k].date)
                           => /\ days[k].session_count = 0
                              /\ days[k].total_distractions = 0
                              /\ days[k].longest_streak_seconds = 0
      ]_vars

\* C9 witness: get_stats just answered, with a session, a distraction and a
\* streak in the entry of one earlier day and nothing in the six other entries.
C9_Witness ==
    /\ Returned(resp, {"get_stats"})
    /\ Len(resp.ret.last_7_days) = 7
    /\ \E d \in 2 .. 7 :
          /\ resp.ret.last_7_days[d].session_count > 0
          /\ resp.ret.last_7_days[d].total_distractions > 0
          /\ resp.ret.last_7_days[d].longest_streak_seconds > 0
          /\ \A k \in (1 .. 7) \ {d} :
                /\ resp.ret.last_7_days[k].session_count = 0
                /\ resp.ret.last_7_days[k].total_distractions = 0
                /\ resp.ret.last_7_days[k].longest_streak_seconds = 0

\* C10: when operations run one after another, the summary of every ended
\* session has 0 <= longest_streak_seconds <= duration_seconds, in the summary
\* that ending returns and in the one get_session_summary returns.
C10_LongestWithinDuration ==
    /\ \A i \in DOMAIN sessions :
          sessions[i].ended_at # NULL
            => LET su == summary_of(sessions[i].started_at, sessions[i].ended_at,
                                    select_distractions(i))
               IN  /\ 0 <= su.longest_streak_seconds
                   /\ su.longest_streak_seconds <= su.duration_seconds
    /\ Returned(resp, {"end_session_full"}) /\ resp.ret.kind = "ended"
          => /\ 0 <= resp.ret.summary.longest_streak_seconds
             /\ resp.ret.summary.longest_streak_seconds <= resp.ret.summary.duration_seconds
    /\ Returned(resp, {"get_session_summary"}) /\ resp.ret.kind = "summary"
          => /\ 0 <= resp.ret.longest_streak_seconds
             /\ resp.ret.longest_streak_seconds <= resp.ret.duration_seconds

\* C10 witness: the summary of an ended session with a distraction was returned,
\* and its longest streak is shorter than its positive duration.
C10_Witness ==
    /\ Returned(resp, {"get_session_summary"})
    /\ resp.ret.kind = "summary"
    /\ resp.ret.distraction_count > 0
    /\ 0 < resp.ret.longest_streak_seconds
    /\ resp.ret.longest_streak_seconds < resp.ret.duration_seconds

\* C11: in every reachable state, every session whose ended_at is present has
\* ended_at >= started_at.
C11_EndedNotBeforeStarted ==
    \A i \in DOMAIN sessions :
       sessions[i].ended_at # NULL => sessions[i].ended_at >= sessions[i].started_at

\* The instant, in ticks, of the local midnight that starts the day of now_ist.
LocalMidnight(now_ist) == (LocalDay(now_ist \div Sub) * 86400 - 19800) * Sub

\* The time of today elapsed, in ticks, for a get_stats call with the locals r.
ElapsedToday(r) ==
    IF r.ts2 - LocalMidnight(r.ts) > 0 THEN r.ts2 - LocalMidnight(r.ts) ELSE 0

\* The divisor of the today rate, in ticks: the elapsed time, or one hour when
\* no time has elapsed.
ElapsedHours(r) == IF ElapsedToday(r) = 0 THEN 3600 * Sub ELSE ElapsedToday(r)

\* The distractions of the sessions that started on the local day of now_ist.
TodayDistractions(r) ==
    {k \in DOMAIN distractions :
        /\ distractions[k].session_id \in DOMAIN sessions
        /\ LocalDay(sessions[distractions[k].session_id].started_at)
             = LocalDay(r.ts \div Sub)}

\* C12: the today rate of get_stats is today's distraction count divided by the
\* elapsed hours of today, one hour standing for an elapsed time of 0 (rounded to
\* the nearest hundredth); the divisor is strictly positive and the rate is >= 0.
C12_TodayRateDivisorPositive ==
    [][Returned(resp', {"get_stats"})
         => LET rate == resp'.ret.today_distractions_per_hour
                exact == Cardinality(TodayDistractions(resp')) * 3600 * Sub * 100
                err == rate * ElapsedHours(resp') - exact
            IN  /\ ElapsedHours(resp') > 0
                /\ today_hours(resp'.ts, resp'.ts2) = ElapsedHours(resp')
                /\ 2 * err <= ElapsedHours(resp')
                /\ 2 * (0 - err) <= ElapsedHours(resp')
                /\ rate >= 0
      ]_vars

\* C12 witness: get_stats just answered at the instant of local midnight, no
\* time of today elapsed, with one distraction today: the rate is 1.00 per hour.
C12_Witness ==
    /\ Returned(resp, {"get_stats"})
    /\ resp.ts2 = LocalMidnight(resp.ts)
    /\ Cardinality(TodayDistractions(resp)) = 1
    /\ resp.ret.today_distractions_per_hour = 100

\* The sessions whose rows a reader in progress has read and whose distractions
\* it has yet to read.
ReadSoFar(r) ==
    IF r.op = "get_session_summary" /\ r.pc = "dists" THEN {r.sid}
    ELSE IF r.op = "get_stats" /\ r.pc = "distractions"
      THEN {r.rows[j].id : j \in DOMAIN r.rows}
    ELSE {}

\* C13: a summary or stats computation sees one snapshot: between its read of the
\* session rows and its read of their distractions no distraction of these
\* sessions is written, so its result counts no distraction written after it read
\* the sessions.
C13_ConsistentSnapshot ==
    [][\A w \in Workers : \A i \in ReadSoFar(req[w]) :
          created_at_of(distractions', i) = created_at_of(distractions, i)
      ]_vars

RECURSIVE SumSeq(_)
SumSeq(q) == IF q = << >> THEN 0 ELSE Head(q) + SumSeq(Tail(q))

\* [started_at] + sorted(distraction_times) + [ended_at] of session i, in seconds.
Boundaries(i) ==
    <<sessions[i].started_at>> \o select_distractions(i) \o <<sessions[i].ended_at>>

\* The gaps that the streak calculator forms for session i.
GapsOfSession(i) ==
    gaps_of(_parse_iso(sessions[i].started_at), _parse_iso(sessions[i].ended_at),
            [k \in 1 .. Len(select_distractions(i)) |-> _parse_iso(select_distractions(i)[k])])

\* C14: for an ended session with N distractions the streak calculator forms
\* exactly N + 1 gaps, those between the consecutive boundaries [started_at] +
\* sorted(distraction_times) + [ended_at]; they sum to the duration, and the
\* longest streak is the greatest of them.  With N = 0 the summary has
\* longest_streak_seconds = duration_seconds = average_streak_seconds.
C14_GapsPartitionDuration ==
    /\ \A i \in DOMAIN sessions :
          sessions[i].ended_at # NULL
            => LET N == Len(select_distractions(i))
                   b == Boundaries(i)
                   gaps == GapsOfSession(i)
                   longest == _longest_streak_seconds(sessions[i].started_at,
                                                      sessions[i].ended_at,
                                                      select_distractions(i))
                   su == summary_of(sessions[i].started_at, sessions[i].ended_at,
                                    select_distractions(i))
               IN  /\ Len(gaps) = N + 1
                   /\ \A k \in 1 .. (N + 1) : gaps[k] = b[k + 1] - b[k]
                   /\ SumSeq(gaps) = sessions[i].ended_at - sessions[i].started_at
                   /\ \E k \in 1 .. Len(gaps) : gaps[k] = longest
                   /\ \A k \in 1 .. Len(gaps) : gaps[k] <= longest
                   /\ su.duration_seconds
                        = 100 * (sessions[i].ended_at - sessions[i].started_at)
                   /\ su.longest_streak_seconds = 100 * longest
                   /\ N = 0 => /\ su.longest_streak_seconds = su.duration_seconds
                               /\ su.average_streak_seconds = su.duration_seconds
    /\ (Returned(resp, {"end_session_full"}) /\ resp.ret.kind = "ended"
        /\ resp.ret.summary.distraction_count = 0)
          => /\ resp.ret.summary.longest_streak_seconds = resp.ret.summary.duration_seconds
             /\ resp.ret.summary.average_streak_seconds = resp.ret.summary.duration_seconds
    /\ (Returned(resp, {"get_session_summary"}) /\ resp.ret.kind = "summary"
        /\ resp.ret.distraction_count = 0)
          => /\ resp.ret.longest_streak_seconds = resp.ret.duration_seconds
             /\ resp.ret.average_streak_seconds = resp.ret.duration_seconds

\* C14 witness: ending a session with one distraction just returned its summary:
\* two gaps of a second each, a longest streak of 1 and a duration of 2 seconds.
C14_Witness ==
    /\ Returned(resp, {"end_session_full"})
    /\ resp.ret.kind = "ended"
    /\ resp.ret.summary.distraction_count = 1
    /\ GapsOfSession(resp.sid) = <<1, 1>>
    /\ resp.ret.summary.longest_streak_seconds = 100
    /\ resp.ret.summary.duration_seconds = 200

\* The streak computed for session i from the tables.
StreakOf(i) ==
    _longest_streak_seconds(sessions[i].started_at, sessions[i].ended_at,
                            select_distractions(i))

\* The rule of the day's max-streak pool: a streak > 0, or ended with no distraction.
InPool(i) ==
    StreakOf(i) > 0 \/ (sessions[i].ended_at # NULL /\ select_distractions(i) = << >>)

\* The sessions that a get_stats call with the locals r read and that started on
\* the local day `day`.
SessionsOfDay(r, day) ==
    {r.rows[j].id : j \in {n \in DOMAIN r.rows : LocalDay(r.rows[n].started_at) = day}}

\* The pool that _compute_day_stats forms for that day.
PoolOfDay(r, day) ==
    _compute_day_stats(SelectSeq(r.rows, LAMBDA row : LocalDay(row.started_at) = day),
                       select_distractions_by_session(r.rows)).day_streaks

\* C15: in the statistics of a day, a session's streak is in the max-streak pool
\* exactly when it is > 0 or the session has ended and has no distraction; an
\* unended session is never in the pool, though its distractions count in
\* total_distractions; longest_streak_seconds is the pool's maximum, 0 when the
\* pool is empty.
C15_StreakPoolInclusion ==
    [][Returned(resp', {"get_stats"})
         => \A k \in 1 .. 7 :
               LET day == LocalDay(resp'.ts \div Sub) - (k - 1)
                   S == SessionsOfDay(resp', day)
                   pool == PoolOfDay(resp', day)
                   entry == resp'.ret.last_7_days[k]
               IN  /\ Len(pool) = Cardinality({i \in S : InPool(i)})
                   /\ {pool[j] : j \in DOMAIN pool} = {StreakOf(i) : i \in {n \in S : InPool(n)}}
                   /\ \A i \in S : sessions[i].ended_at = NULL => ~InPool(i)
                   /\ entry.total_distractions
                        = Cardinality({d \in DOMAIN distractions :
                                         distractions[d].session_id \in S})
                   /\ IF pool = << >>
                        THEN entry.longest_streak_seconds = 0
                        ELSE /\ \E j \in DOMAIN pool : pool[j] = entry.longest_streak_seconds
                             /\ \A j \in DOMAIN pool : pool[j] <= entry.longest_streak_seconds
      ]_vars

\* C15 witness: get_stats just answered more than a second after the start of
\* today's only session, which is unended and has a distraction: the distraction
\* is counted and the longest streak of the day is 0.
C15_Witness ==
    /\ Returned(resp, {"get_stats"})
    /\ \E i \in SessionsOfDay(resp, LocalDay(resp.ts \div Sub)) :
          /\ SessionsOfDay(resp, LocalDay(resp.ts \div Sub)) = {i}
          /\ sessions[i].ended_at = NULL
          /\ resp.ts >= (sessions[i].started_at + 1) * Sub
    /\ resp.ret.last_7_days[1].session_count = 1
    /\ resp.ret.last_7_days[1].total_distractions = 1
    /\ resp.ret.last_7_days[1].longest_streak_seconds = 0

====
